---- MODULE Spec2Model ----
(***************************************************************************)
(* UsersService (src/src/users/users.service.ts): the account service of   *)
(* nestjs-graphql-fastify-template, as a state machine over the stored     *)
(* users.  Every public method of the service is one action; a string is a *)
(* sequence of one-character strings, so that lower-casing, slugs, prefix  *)
(* matching ($like 'slug%') and the decimal suffix are computed as the     *)
(* code computes them.                                                     *)
(***************************************************************************)
EXTENDS Integers, Sequences, FiniteSets, TLC

VARIABLES
    users,      \* the users table: id -> UserEntity, for the stored ids
    nextId,     \* the next primary key the storage hands out
    sessions,   \* ids with a 'sessions:<id>' entry in the cache
    nextUrl,    \* the next URL the uploader hands out
    files,      \* URLs the uploader stores
    pending,    \* old pictures whose deleteFile promise is in flight
    creating,   \* the calls of create that are between two of their awaits
    updating,   \* the calls of updatePicture that are between two awaits
    last        \* the last call of the service: its arguments and outcome

vars ==
    <<users, nextId, sessions, nextUrl, files, pending, creating, updating,
      last>>

----------------------------------------------------------------------------
(* Bounds of the model.                                                    *)

\* users created over a run of Spec (primary keys 1..MaxCreates)
MaxCreates == 2
\* users created over a run of SpecNames
MaxNamed == 3
\* highest credentials version a run reaches
MaxVersion == 2
\* pictures uploaded over a run
MaxUploads == 2
\* calls of create that run at the same time
MaxRequests == 2

----------------------------------------------------------------------------
(* Strings.                                                                *)

LowerChar(c) ==
    CASE c = "A" -> "a"
      [] c = "B" -> "b"
      [] c = "J" -> "j"
      [] c = "O" -> "o"
      [] c = "N" -> "n"
      [] OTHER -> c

UpperChar(c) ==
    CASE c = "a" -> "A"
      [] c = "b" -> "B"
      [] c = "j" -> "J"
      [] c = "o" -> "O"
      [] c = "n" -> "N"
      [] OTHER -> c

\* String.prototype.toLowerCase
toLowerCase(s) == [i \in 1..Len(s) |-> LowerChar(s[i])]

\* `${a}%` matched by $like: s starts with a
IsPrefix(a, s) == Len(a) <= Len(s) /\ SubSeq(s, 1, Len(a)) = a

DigitChar(d) ==
    CASE d = 0 -> "0" [] d = 1 -> "1" [] d = 2 -> "2" [] d = 3 -> "3"
      [] d = 4 -> "4" [] d = 5 -> "5" [] d = 6 -> "6" [] d = 7 -> "7"
      [] d = 8 -> "8" [] OTHER -> "9"

RECURSIVE NumberToString(_)
\* `${count}`: the decimal digits of a non-negative integer
NumberToString(n) ==
    IF n < 10 THEN <<DigitChar(n)>>
    ELSE NumberToString(n \div 10) \o <<DigitChar(n % 10)>>

\* CommonService.formatTitle: the first letter of every word in upper case
formatTitle(s) ==
    [i \in 1..Len(s) |->
        IF i = 1 \/ s[i - 1] = " " THEN UpperChar(s[i]) ELSE s[i]]

\* CommonService.generatePointSlug: lower case, words joined by points
generatePointSlug(s) ==
    [i \in 1..Len(s) |-> IF s[i] = " " THEN "." ELSE LowerChar(s[i])]

----------------------------------------------------------------------------
(* bcrypt.                                                                 *)

\* the sentinel stored for an account created without a password
UNSET == <<"U", "N", "S", "E", "T">>

\* the argument `password?` left out
Undefined == <<"undefined">>

isUndefined(v) == v = Undefined

\* the value null
Null == <<"null">>

isNull(v) == v = Null

\* hash(password, 10): a salted digest, never the password itself
hash(password, salt) == <<"$2b$10$", salt>> \o password


\* a comparison that also accepts the stored text itself
compareOrEqual(password, stored) ==
    \/ stored = password
    \/ /\ Len(stored) >= 2
       /\ stored[1] = "$2b$10$"
       /\ SubSeq(stored, 3, Len(stored)) = password

\* compare(password, stored): stored is a digest of password
compare(password, stored) ==
    /\ Len(stored) >= 2
    /\ stored[1] = "$2b$10$"
    /\ SubSeq(stored, 3, Len(stored)) = password

----------------------------------------------------------------------------
(* Errors.                                                                 *)

OK == "ok"
NotFound == "User not found"
InvalidCredentials == "Invalid credentials"
EmailInUse == "Email already in use"
UsernameInUse == "Username already in use"
WrongPassword == "Wrong password"
SamePassword == "New password must be different"
SameEmail == "Email should be different"
AlreadyConfirmed == "Email already confirmed"
Duplicated == "Duplicated value in database"
UploadFailed == "Error uploading image"

----------------------------------------------------------------------------
(* The repository.                                                         *)

\* usersRepository.findOne({ id }): 0 stands for null
FindById(us, id) == IF id \in DOMAIN us THEN id ELSE 0

\* usersRepository.findOne({ email }): 0 stands for null
FindByEmail(us, email) ==
    IF \E i \in DOMAIN us : us[i].email = email
    THEN CHOOSE i \in DOMAIN us : us[i].email = email
    ELSE 0

\* usersRepository.findOne({ username }): 0 stands for null
FindByUsername(us, username) ==
    IF \E i \in DOMAIN us : us[i].username = username
    THEN CHOOSE i \in DOMAIN us : us[i].username = username
    ELSE 0

\* a users table without unique constraints
UniqueViolationNever(us, id, entity) == FALSE

\* the unique constraints of the users table on email and username
UniqueViolation(us, id, entity) ==
    \E i \in DOMAIN us :
        /\ i # id
        /\ \/ us[i].email = entity.email
           \/ us[i].username = entity.username

\* usersRepository.create(...): the entity with the defaults of UserEntity
NewUser(email, name, username, provider, password) ==
    [email |-> email, name |-> name, username |-> username,
     authProviders |-> {provider}, password |-> password,
     confirmed |-> FALSE, onlineStatus |-> "OFFLINE",
     defaultStatus |-> "ONLINE", picture |-> 0,
     version |-> 0, lastPassword |-> <<>>]

\* CredentialsEmbeddable.updateVersion
updateVersion(user) == [user EXCEPT !.version = @ + 1]

\* CredentialsEmbeddable.updatePassword
credentialsUpdatePassword(user, password) ==
    [user EXCEPT !.version = @ + 1, !.lastPassword = password]

----------------------------------------------------------------------------
(* Private helpers of the service, over a users table.                     *)

\* a check that lets one stored copy of the email pass
checkEmailUniquenessOffByOne(us, email) ==
    IF Cardinality({i \in DOMAIN us : us[i].email = email}) > 1
    THEN EmailInUse ELSE OK

\* checkEmailUniqueness: the error it throws, or OK
checkEmailUniqueness(us, email) ==
    IF Cardinality({i \in DOMAIN us : us[i].email = email}) > 0
    THEN EmailInUse ELSE OK


\* a check that lets one stored copy of the username pass
checkUsernameUniquenessOffByOne(us, username) ==
    IF Cardinality({i \in DOMAIN us : us[i].username = username}) > 1
    THEN UsernameInUse ELSE OK

\* checkUsernameUniqueness: the error it throws, or OK
checkUsernameUniqueness(us, username) ==
    IF Cardinality({i \in DOMAIN us : us[i].username = username}) > 0
    THEN UsernameInUse ELSE OK


\* a helper that tells a missing user from a wrong credential
throwUnauthorizedExceptionLeaking(found) ==
    IF found = 0 THEN NotFound ELSE OK

\* throwUnauthorizedException: the error it throws, or OK
throwUnauthorizedException(found) ==
    IF found = 0 THEN InvalidCredentials ELSE OK

\* CommonService.checkEntityExistence(user, 'User')
checkEntityExistence(found) == IF found = 0 THEN NotFound ELSE OK

\* generateUsername
generateUsername(us, name) ==
    LET pointSlug == generatePointSlug(name)
        count == Cardinality({i \in DOMAIN us :
                                IsPrefix(pointSlug, us[i].username)})
    IN  IF count > 0 THEN pointSlug \o NumberToString(count) ELSE pointSlug

\* a comparison that rejects only versions the user has not reached yet
credentialsErrorNewerOnly(us, id, version) ==
    IF throwUnauthorizedException(FindById(us, id)) # OK
    THEN InvalidCredentials
    ELSE IF us[id].version < version THEN InvalidCredentials ELSE OK

\* findOneByCredentials: the error it throws, or OK
credentialsError(us, id, version) ==
    IF throwUnauthorizedException(FindById(us, id)) # OK
    THEN InvalidCredentials
    ELSE IF us[id].version # version THEN InvalidCredentials ELSE OK

----------------------------------------------------------------------------
(* The record of a call.                                                   *)

Call(op) ==
    [op |-> op, id |-> 0, version |-> 0, email |-> <<>>, name |-> <<>>,
     username |-> <<>>, password |-> <<>>, newPassword |-> <<>>,
     status |-> "", forAuth |-> FALSE, search |-> <<>>, first |-> 0,
     after |-> <<>>, cursor |-> "", cursorType |-> "", order |-> "",
     err |-> OK, ret |-> 0, sel |-> {}]

\* the call throws: nothing is flushed
Throw(call, err) ==
    /\ last' = [call EXCEPT !.err = err]
    /\ users' = users
    /\ nextId' = nextId

\* a lookup returns
Return(call, found) ==
    /\ last' = [call EXCEPT !.ret = found]
    /\ users' = users
    /\ nextId' = nextId

\* CommonService.saveEntity(repository, entity, isNew): flush, which the
\* unique constraints of the table may refuse
saveEntity(call, id, entity, isNew) ==
    IF UniqueViolation(users, id, entity)
    THEN Throw(call, Duplicated)
    ELSE /\ users' = (id :> entity) @@ users
         /\ nextId' = IF isNew THEN nextId + 1 ELSE nextId
         /\ last' = [call EXCEPT !.ret = id]

\* CommonService.removeEntity(repository, entity)
removeEntity(call, id) ==
    /\ users' = [i \in DOMAIN users \ {id} |-> users[i]]
    /\ nextId' = nextId
    /\ last' = [call EXCEPT !.ret = id]

\* the calls of create that may be in flight together
Requests == 1..MaxRequests

\* no call of create is in this slot
NoRequest ==
    [pc |-> "none", email |-> <<>>, name |-> <<>>, username |-> <<>>,
     provider |-> "", password |-> <<>>]

\* no call of updatePicture is in this slot
NoUpdate == [pc |-> "none", id |-> 0, oldPicture |-> 0, picture |-> 0]

----------------------------------------------------------------------------
Init ==
    /\ users = <<>>
    /\ nextId = 1
    /\ sessions = {}
    /\ nextUrl = 1
    /\ files = {}
    /\ pending = {}
    /\ creating = [r \in Requests |-> NoRequest]
    /\ updating = [r \in Requests |-> NoUpdate]
    /\ last = Call("idle")

Create(email, name, provider, password, salt) ==
    LET call == [Call("create") EXCEPT
                    !.email = email, !.name = name, !.password = password]
        formattedEmail == toLowerCase(email)
        formattedName == formatTitle(name)
    IN
    /\ IF checkEmailUniqueness(users, formattedEmail) # OK
       THEN Throw(call, checkEmailUniqueness(users, formattedEmail))
       ELSE saveEntity(call, nextId,
                NewUser(formattedEmail, formattedName,
                        generateUsername(users, formattedName), provider,
                        IF isUndefined(password) THEN UNSET
                        ELSE hash(password, salt)),
                TRUE)
    /\ UNCHANGED <<sessions, nextUrl, files, pending, creating, updating>>


\* create, up to the await of checkEmailUniqueness: request r has passed the
\* check, or the call is over
CreateCheckEmail(r, email, name, provider, password) ==
    LET call == [Call("create") EXCEPT
                    !.email = email, !.name = name, !.password = password]
        formattedEmail == toLowerCase(email)
    IN
    /\ creating[r].pc = "none"
    /\ IF checkEmailUniqueness(users, formattedEmail) # OK
       THEN /\ Throw(call, checkEmailUniqueness(users, formattedEmail))
            /\ UNCHANGED creating
       ELSE /\ creating' = [creating EXCEPT ![r] =
                   [pc |-> "username", email |-> email, name |-> name,
                    username |-> <<>>, provider |-> provider,
                    password |-> password]]
            /\ UNCHANGED <<users, nextId, last>>
    /\ UNCHANGED <<sessions, nextUrl, files, pending, updating>>

\* create, up to the await of generateUsername
CreateGenerateUsername(r) ==
    /\ creating[r].pc = "username"
    /\ creating' = [creating EXCEPT
           ![r].pc = "save",
           ![r].username =
               generateUsername(users, formatTitle(creating[r].name))]
    /\ UNCHANGED <<users, nextId, sessions, nextUrl, files, pending,
                   updating, last>>

\* a create that looks for the email once more before it saves
CreateSaveRechecked(r, salt) ==
    LET c == creating[r]
        call == [Call("create") EXCEPT
                    !.email = c.email, !.name = c.name,
                    !.password = c.password]
    IN
    /\ c.pc = "save"
    /\ IF checkEmailUniqueness(users, toLowerCase(c.email)) # OK
       THEN Throw(call, checkEmailUniqueness(users, toLowerCase(c.email)))
       ELSE saveEntity(call, nextId,
                NewUser(toLowerCase(c.email), formatTitle(c.name),
                        c.username, c.provider,
                        IF isUndefined(c.password) THEN UNSET
                        ELSE hash(c.password, salt)),
                TRUE)
    /\ creating' = [creating EXCEPT ![r] = NoRequest]
    /\ UNCHANGED <<sessions, nextUrl, files, pending, updating>>

\* create, from the await of hash to the end: the entity is built and saved
CreateSave(r, salt) ==
    LET c == creating[r]
        call == [Call("create") EXCEPT
                    !.email = c.email, !.name = c.name,
                    !.password = c.password]
    IN
    /\ c.pc = "save"
    /\ saveEntity(call, nextId,
           NewUser(toLowerCase(c.email), formatTitle(c.name), c.username,
                   c.provider,
                   IF isUndefined(c.password) THEN UNSET
                   ELSE hash(c.password, salt)),
           TRUE)
    /\ creating' = [creating EXCEPT ![r] = NoRequest]
    /\ UNCHANGED <<sessions, nextUrl, files, pending, updating>>

FindOneById(id) ==
    LET call == [Call("findOneById") EXCEPT !.id = id]
        user == FindById(users, id)
    IN
    /\ IF checkEntityExistence(user) # OK
       THEN Throw(call, checkEntityExistence(user))
       ELSE Return(call, user)
    /\ UNCHANGED <<sessions, nextUrl, files, pending, creating, updating>>

FindOneByUsername(username, forAuth) ==
    LET call == [Call("findOneByUsername") EXCEPT
                    !.username = username, !.forAuth = forAuth]
        user == FindByUsername(users, toLowerCase(username))
        err == IF forAuth THEN throwUnauthorizedException(user)
               ELSE checkEntityExistence(user)
    IN
    /\ IF err # OK THEN Throw(call, err) ELSE Return(call, user)
    /\ UNCHANGED <<sessions, nextUrl, files, pending, creating, updating>>

FindOneByEmail(email) ==
    LET call == [Call("findOneByEmail") EXCEPT !.email = email]
        user == FindByEmail(users, toLowerCase(email))
    IN
    /\ IF throwUnauthorizedException(user) # OK
       THEN Throw(call, throwUnauthorizedException(user))
       ELSE Return(call, user)
    /\ UNCHANGED <<sessions, nextUrl, files, pending, creating, updating>>

UncheckedUserByEmail(email) ==
    LET call == [Call("uncheckedUserByEmail") EXCEPT !.email = email]
    IN
    /\ Return(call, FindByEmail(users, toLowerCase(email)))
    /\ UNCHANGED <<sessions, nextUrl, files, pending, creating, updating>>

FindOneByCredentials(id, version) ==
    LET call == [Call("findOneByCredentials") EXCEPT
                    !.id = id, !.version = version]
    IN
    /\ IF credentialsError(users, id, version) # OK
       THEN Throw(call, credentialsError(users, id, version))
       ELSE Return(call, id)
    /\ UNCHANGED <<sessions, nextUrl, files, pending, creating, updating>>

\* confirmEmail without the check of user.confirmed
confirmEmailErrorUnchecked(us, userId, version) ==
    credentialsError(us, userId, version)

\* confirmEmail, up to the first throw: the error, or OK
confirmEmailError(us, userId, version) ==
    IF credentialsError(us, userId, version) # OK
    THEN credentialsError(us, userId, version)
    ELSE IF us[userId].confirmed THEN AlreadyConfirmed ELSE OK


\* confirmEmail that moves the version before it looks at user.confirmed
ConfirmEmailBumpFirst(userId, version) ==
    LET call == [Call("confirmEmail") EXCEPT
                    !.id = userId, !.version = version]
        err == confirmEmailError(users, userId, version)
    IN
    /\ IF err = AlreadyConfirmed
       THEN /\ users[userId].version < MaxVersion
            /\ users' = [users EXCEPT ![userId] = updateVersion(@)]
            /\ nextId' = nextId
            /\ last' = [call EXCEPT !.err = err]
       ELSE IF err # OK
       THEN Throw(call, err)
       ELSE /\ users[userId].version < MaxVersion
            /\ saveEntity(call, userId,
                   updateVersion([users[userId] EXCEPT !.confirmed = TRUE]),
                   FALSE)
    /\ UNCHANGED <<sessions, nextUrl, files, pending, creating, updating>>

ConfirmEmail(userId, version) ==
    LET call == [Call("confirmEmail") EXCEPT
                    !.id = userId, !.version = version]
    IN
    /\ IF confirmEmailError(users, userId, version) # OK
       THEN Throw(call, confirmEmailError(users, userId, version))
       ELSE /\ users[userId].version < MaxVersion
            /\ saveEntity(call, userId,
                   updateVersion([users[userId] EXCEPT !.confirmed = TRUE]),
                   FALSE)
    /\ UNCHANGED <<sessions, nextUrl, files, pending, creating, updating>>

\* updatePassword without the comparison of the new password
updatePasswordErrorSameAllowed(us, userId, password, newPassword) ==
    IF checkEntityExistence(FindById(us, userId)) # OK
    THEN checkEntityExistence(FindById(us, userId))
    ELSE IF ~compare(password, us[userId].password) THEN WrongPassword
    ELSE OK

\* updatePassword, up to the first throw: the error, or OK
updatePasswordError(us, userId, password, newPassword) ==
    IF checkEntityExistence(FindById(us, userId)) # OK
    THEN checkEntityExistence(FindById(us, userId))
    ELSE IF ~compare(password, us[userId].password) THEN WrongPassword
    ELSE IF compare(newPassword, us[userId].password) THEN SamePassword
    ELSE OK

\* the password replaced and the version bumped twice
passwordChangedTwice(user, digest) ==
    [updateVersion(credentialsUpdatePassword(user, user.password)) EXCEPT
        !.password = digest]

\* user.credentials.updatePassword(user.password); user.password = digest
passwordChanged(user, digest) ==
    [credentialsUpdatePassword(user, user.password) EXCEPT
        !.password = digest]

UpdatePassword(userId, password, newPassword, salt) ==
    LET call == [Call("updatePassword") EXCEPT
                    !.id = userId, !.password = password,
                    !.newPassword = newPassword]
    IN
    /\ IF updatePasswordError(users, userId, password, newPassword) # OK
       THEN Throw(call,
                updatePasswordError(users, userId, password, newPassword))
       ELSE /\ users[userId].version < MaxVersion
            /\ saveEntity(call, userId,
                   passwordChanged(users[userId], hash(newPassword, salt)),
                   FALSE)
    /\ UNCHANGED <<sessions, nextUrl, files, pending, creating, updating>>

\* resetPassword that leaves the version as it is
ResetPasswordNoBump(userId, version, password, salt) ==
    LET call == [Call("resetPassword") EXCEPT
                    !.id = userId, !.version = version,
                    !.password = password]
    IN
    /\ IF credentialsError(users, userId, version) # OK
       THEN Throw(call, credentialsError(users, userId, version))
       ELSE saveEntity(call, userId,
                [users[userId] EXCEPT !.password = hash(password, salt)],
                FALSE)
    /\ UNCHANGED <<sessions, nextUrl, files, pending, creating, updating>>

ResetPassword(userId, version, password, salt) ==
    LET call == [Call("resetPassword") EXCEPT
                    !.id = userId, !.version = version,
                    !.password = password]
    IN
    /\ IF credentialsError(users, userId, version) # OK
       THEN Throw(call, credentialsError(users, userId, version))
       ELSE /\ users[userId].version < MaxVersion
            /\ saveEntity(call, userId,
                   passwordChanged(users[userId], hash(password, salt)),
                   FALSE)
    /\ UNCHANGED <<sessions, nextUrl, files, pending, creating, updating>>

\* updateEmail with the email compared before the password
updateEmailErrorEmailFirst(us, userId, email, password) ==
    IF checkEntityExistence(FindById(us, userId)) # OK
    THEN checkEntityExistence(FindById(us, userId))
    ELSE IF us[userId].email = toLowerCase(email) THEN SameEmail
    ELSE IF ~compare(password, us[userId].password) THEN WrongPassword
    ELSE checkEmailUniqueness(us, toLowerCase(email))

\* updateEmail, up to the first throw: the error, or OK
updateEmailError(us, userId, email, password) ==
    IF checkEntityExistence(FindById(us, userId)) # OK
    THEN checkEntityExistence(FindById(us, userId))
    ELSE IF ~compare(password, us[userId].password) THEN WrongPassword
    ELSE IF us[userId].email = toLowerCase(email) THEN SameEmail
    ELSE checkEmailUniqueness(us, toLowerCase(email))


\* updateEmail that asks for a confirmation of the new email
UpdateEmailUnconfirms(userId, email, password) ==
    LET call == [Call("updateEmail") EXCEPT
                    !.id = userId, !.email = email, !.password = password]
        formattedEmail == toLowerCase(email)
    IN
    /\ IF updateEmailError(users, userId, email, password) # OK
       THEN Throw(call, updateEmailError(users, userId, email, password))
       ELSE saveEntity(call, userId,
                [users[userId] EXCEPT
                    !.email = formattedEmail, !.confirmed = FALSE],
                FALSE)
    /\ UNCHANGED <<sessions, nextUrl, files, pending, creating, updating>>

UpdateEmail(userId, email, password) ==
    LET call == [Call("updateEmail") EXCEPT
                    !.id = userId, !.email = email, !.password = password]
        formattedEmail == toLowerCase(email)
    IN
    /\ IF updateEmailError(users, userId, email, password) # OK
       THEN Throw(call, updateEmailError(users, userId, email, password))
       ELSE saveEntity(call, userId,
                [users[userId] EXCEPT !.email = formattedEmail], FALSE)
    /\ UNCHANGED <<sessions, nextUrl, files, pending, creating, updating>>

\* delete without the comparison of the password
deleteErrorUngated(us, userId, password) ==
    checkEntityExistence(FindById(us, userId))

\* delete, up to the first throw: the error, or OK
deleteError(us, userId, password) ==
    IF checkEntityExistence(FindById(us, userId)) # OK
    THEN checkEntityExistence(FindById(us, userId))
    ELSE IF ~compare(password, us[userId].password) THEN WrongPassword
    ELSE OK

Delete(userId, password) ==
    LET call == [Call("delete") EXCEPT
                    !.id = userId, !.password = password]
    IN
    /\ IF deleteError(users, userId, password) # OK
       THEN Throw(call, deleteError(users, userId, password))
       ELSE removeEntity(call, userId)
    /\ UNCHANGED <<sessions, nextUrl, files, pending, creating, updating>>

UpdatePicture(userId, uploaded) ==
    LET call == [Call("updatePicture") EXCEPT !.id = userId]
        found == FindById(users, userId)
    IN
    IF checkEntityExistence(found) # OK
    THEN /\ Throw(call, checkEntityExistence(found))
         /\ UNCHANGED <<sessions, nextUrl, files, pending, creating, updating>>
    ELSE IF ~uploaded
    THEN /\ Throw(call, UploadFailed)
         /\ UNCHANGED <<sessions, nextUrl, files, pending, creating, updating>>
    ELSE LET oldPicture == users[userId].picture IN
         /\ nextUrl <= MaxUploads
         /\ nextUrl' = nextUrl + 1
         /\ files' = files \cup {nextUrl}
         /\ pending' = IF oldPicture # 0 THEN pending \cup {oldPicture}
                       ELSE pending
         /\ saveEntity(call, userId,
                [users[userId] EXCEPT !.picture = nextUrl], FALSE)
         /\ UNCHANGED <<sessions, creating, updating>>

\* the flush is refused for a reason that is not a unique constraint
FlushFailed == "Error saving entity"

\* updatePicture, up to the await of uploadImage: the user is loaded and the
\* picture it has is kept as oldPicture, or the call is over
UpdatePictureFind(r, userId) ==
    LET call == [Call("updatePicture") EXCEPT !.id = userId]
        found == FindById(users, userId)
    IN
    /\ updating[r].pc = "none"
    /\ IF checkEntityExistence(found) # OK
       THEN /\ Throw(call, checkEntityExistence(found))
            /\ UNCHANGED updating
       ELSE /\ updating' = [updating EXCEPT ![r] =
                   [pc |-> "upload", id |-> userId,
                    oldPicture |-> users[userId].picture, picture |-> 0]]
            /\ UNCHANGED <<users, nextId, last>>
    /\ UNCHANGED <<sessions, nextUrl, files, pending, creating>>

\* an updatePicture that asks for the deletion whatever the upload did
UpdatePictureUploadDeletesFirst(r, uploaded) ==
    LET u == updating[r]
        call == [Call("updatePicture") EXCEPT !.id = u.id]
    IN
    /\ u.pc = "upload"
    /\ pending' = IF u.oldPicture # 0 THEN pending \cup {u.oldPicture}
                  ELSE pending
    /\ IF ~uploaded
       THEN /\ Throw(call, UploadFailed)
            /\ updating' = [updating EXCEPT ![r] = NoUpdate]
            /\ UNCHANGED <<nextUrl, files>>
       ELSE /\ nextUrl <= MaxUploads
            /\ nextUrl' = nextUrl + 1
            /\ files' = files \cup {nextUrl}
            /\ updating' = [updating EXCEPT
                   ![r].pc = "save", ![r].picture = nextUrl]
            /\ UNCHANGED <<users, nextId, last>>
    /\ UNCHANGED <<sessions, creating>>

\* updatePicture, from the await of uploadImage to the await of saveEntity:
\* the upload has failed and the call is over, or the new URL is on the
\* entity and the deletion of an old picture is asked for, not awaited
UpdatePictureUpload(r, uploaded) ==
    LET u == updating[r]
        call == [Call("updatePicture") EXCEPT !.id = u.id]
    IN
    /\ u.pc = "upload"
    /\ IF ~uploaded
       THEN /\ Throw(call, UploadFailed)
            /\ updating' = [updating EXCEPT ![r] = NoUpdate]
            /\ UNCHANGED <<nextUrl, files, pending>>
       ELSE /\ nextUrl <= MaxUploads
            /\ nextUrl' = nextUrl + 1
            /\ files' = files \cup {nextUrl}
            /\ pending' = IF u.oldPicture # 0
                          THEN pending \cup {u.oldPicture}
                          ELSE pending
            /\ updating' = [updating EXCEPT
                   ![r].pc = "save", ![r].picture = nextUrl]
            /\ UNCHANGED <<users, nextId, last>>
    /\ UNCHANGED <<sessions, creating>>

\* updatePicture, from the await of saveEntity to the end: the flush has
\* written the picture of the user, or it has failed and the call throws
UpdatePictureSave(r, saved) ==
    LET u == updating[r]
        call == [Call("updatePicture") EXCEPT !.id = u.id]
    IN
    /\ u.pc = "save"
    /\ u.id \in DOMAIN users
    /\ IF ~saved
       THEN Throw(call, FlushFailed)
       ELSE saveEntity(call, u.id,
                [users[u.id] EXCEPT !.picture = u.picture], FALSE)
    /\ updating' = [updating EXCEPT ![r] = NoUpdate]
    /\ UNCHANGED <<sessions, nextUrl, files, pending, creating>>

\* a deletion whose failure reaches the caller of updatePicture
DeleteFileSettleRethrown(url, deleted) ==
    /\ url \in pending
    /\ pending' = pending \ {url}
    /\ files' = IF deleted THEN files \ {url} ELSE files
    /\ last' = IF deleted THEN last
               ELSE [last EXCEPT !.err = "Error deleting file"]
    /\ UNCHANGED <<users, nextId, sessions, nextUrl, creating, updating>>

\* the promise of uploaderService.deleteFile(oldPicture) settles
DeleteFileSettle(url, deleted) ==
    /\ url \in pending
    /\ pending' = pending \ {url}
    /\ files' = IF deleted THEN files \ {url} ELSE files
    /\ UNCHANGED <<users, nextId, sessions, nextUrl, creating, updating, last>>

UpdateName(userId, name) ==
    LET call == [Call("updateName") EXCEPT !.id = userId, !.name = name]
        formatName == formatTitle(name)
        found == FindById(users, userId)
    IN
    /\ IF checkEntityExistence(found) # OK
       THEN Throw(call, checkEntityExistence(found))
       ELSE saveEntity(call, userId,
                [users[userId] EXCEPT
                    !.name = formatName,
                    !.username = generateUsername(users, formatName)],
                FALSE)
    /\ UNCHANGED <<sessions, nextUrl, files, pending, creating, updating>>

UpdateUsername(userId, username) ==
    LET call == [Call("updateUsername") EXCEPT
                    !.id = userId, !.username = username]
        found == FindById(users, userId)
        formattedUsername == toLowerCase(username)
    IN
    /\ IF checkEntityExistence(found) # OK
       THEN Throw(call, checkEntityExistence(found))
       ELSE IF checkUsernameUniqueness(users, formattedUsername) # OK
       THEN Throw(call, checkUsernameUniqueness(users, formattedUsername))
       ELSE saveEntity(call, userId,
                [users[userId] EXCEPT !.username = formattedUsername],
                FALSE)
    /\ UNCHANGED <<sessions, nextUrl, files, pending, creating, updating>>


\* updateOnlineStatus without the look into the cache
UpdateOnlineStatusUnconditional(userId, onlineStatus) ==
    LET call == [Call("updateOnlineStatus") EXCEPT
                    !.id = userId, !.status = onlineStatus]
        found == FindById(users, userId)
    IN
    /\ IF checkEntityExistence(found) # OK
       THEN Throw(call, checkEntityExistence(found))
       ELSE saveEntity(call, userId,
                [users[userId] EXCEPT
                    !.defaultStatus = onlineStatus,
                    !.onlineStatus = onlineStatus],
                FALSE)
    /\ UNCHANGED <<sessions, nextUrl, files, pending, creating, updating>>

UpdateOnlineStatus(userId, onlineStatus) ==
    LET call == [Call("updateOnlineStatus") EXCEPT
                    !.id = userId, !.status = onlineStatus]
        found == FindById(users, userId)
    IN
    /\ IF checkEntityExistence(found) # OK
       THEN Throw(call, checkEntityExistence(found))
       ELSE saveEntity(call, userId,
                [users[userId] EXCEPT
                    !.defaultStatus = onlineStatus,
                    !.onlineStatus =
                        IF userId \in sessions THEN onlineStatus ELSE @],
                FALSE)
    /\ UNCHANGED <<sessions, nextUrl, files, pending, creating, updating>>

\* CommonService.formatSearch with $ilike: name contains search, whatever
\* the case of the letters
Contains(s, sub) ==
    \E k \in 0..(Len(s) - Len(sub)) : SubSeq(s, k + 1, k + Len(sub)) = sub

ilike(name, search) == Contains(toLowerCase(name), toLowerCase(search))

\* query without the condition on confirmed
QueryEveryone(search, first, after) ==
    LET call == [Call("query") EXCEPT
                    !.search = search, !.first = first, !.after = after]
    IN
    /\ last' = [call EXCEPT
           !.cursor = "username", !.cursorType = "STRING", !.order = "ASC",
           !.sel =
               {i \in DOMAIN users :
                    (~isUndefined(search) /\ ~isNull(search))
                        => ilike(users[i].name, search)}]
    /\ UNCHANGED <<users, nextId, sessions, nextUrl, files, pending, creating,
                   updating>>

\* query: sel is what the query builder selects, handed with the cursor
\* field, its type, the order, first and after to queryBuilderPagination
Query(search, first, after) ==
    LET call == [Call("query") EXCEPT
                    !.search = search, !.first = first, !.after = after]
    IN
    /\ last' = [call EXCEPT
           !.cursor = "username", !.cursorType = "STRING", !.order = "ASC",
           !.sel =
               {i \in DOMAIN users :
                    /\ users[i].confirmed
                    /\ (~isUndefined(search) /\ ~isNull(search))
                           => ilike(users[i].name, search)}]
    /\ UNCHANGED <<users, nextId, sessions, nextUrl, files, pending, creating,
                   updating>>

\* the auth module stores the session entry of a user in the cache
CacheSet(id) ==
    /\ id \notin sessions
    /\ sessions' = sessions \cup {id}
    /\ UNCHANGED <<users, nextId, nextUrl, files, pending, creating, updating,
                   last>>

\* the session entry is deleted or expires
CacheDel(id) ==
    /\ id \in sessions
    /\ sessions' = sessions \ {id}
    /\ UNCHANGED <<users, nextId, nextUrl, files, pending, creating, updating,
                   last>>

\* the response of the last call has left: the service takes the next call
Respond ==
    /\ last.op # "idle"
    /\ last' = Call("idle")
    /\ UNCHANGED <<users, nextId, sessions, nextUrl, files, pending, creating,
                   updating>>

----------------------------------------------------------------------------
(* The inputs of a run: D gives the sets the arguments are drawn from.     *)

Versions == 0..MaxVersion

\* no call is being served
Idle == last.op = "idle"

\* registrations
Creates(D) ==
    \E email \in D.emails, name \in D.names,
       password \in D.createPasswords, salt \in D.salts :
        /\ Idle
        /\ nextId <= D.maxCreates
        /\ Create(email, name, "local", password, salt)

\* the lookups and the search
Lookups(D) ==
    \/ \E id \in D.ids : Idle /\ FindOneById(id)
    \/ \E username \in D.usernames, forAuth \in BOOLEAN :
            Idle /\ FindOneByUsername(username, forAuth)
    \/ \E email \in D.emails : Idle /\ FindOneByEmail(email)
    \/ \E email \in D.emails : Idle /\ UncheckedUserByEmail(email)
    \/ \E id \in D.ids, version \in Versions :
            Idle /\ FindOneByCredentials(id, version)
    \/ \E search \in D.searches, first \in D.firsts, after \in D.afters :
            Idle /\ Query(search, first, after)

\* the calls that change the credentials
Credentials(D) ==
    \/ \E id \in D.credentialIds, version \in Versions :
            Idle /\ ConfirmEmail(id, version)
    \/ \E id \in D.credentialIds, password \in D.passwords,
          newPassword \in D.newPasswords, salt \in D.salts :
            Idle /\ UpdatePassword(id, password, newPassword, salt)
    \/ \E id \in D.credentialIds, version \in Versions,
          password \in D.passwords, salt \in D.salts :
            Idle /\ ResetPassword(id, version, password, salt)

\* the password-gated changes of the account
Gated(D) ==
    \/ \E id \in D.ids, email \in D.emails, password \in D.passwords :
            Idle /\ UpdateEmail(id, email, password)
    \/ \E id \in D.ids, password \in D.passwords :
            Idle /\ Delete(id, password)

\* the changes of name and username
Renames(D) ==
    \/ \E id \in D.ids, name \in D.names : Idle /\ UpdateName(id, name)
    \/ \E id \in D.ids, username \in D.usernames :
            Idle /\ UpdateUsername(id, username)

\* the change of picture
Pictures(D) ==
    \E id \in D.profileIds, uploaded \in BOOLEAN :
        Idle /\ UpdatePicture(id, uploaded)

\* the change of online status
Presence(D) ==
    \E id \in D.profileIds, status \in D.statuses :
        Idle /\ UpdateOnlineStatus(id, status)

\* the methods of the service, one call at a time
Service(D) ==
    \/ Creates(D)
    \/ Lookups(D)
    \/ Credentials(D)
    \/ Gated(D)
    \/ Renames(D)
    \/ Pictures(D)
    \/ Presence(D)

\* the collaborators: the cache and the uploader
Collaborators(D) ==
    \/ \E url \in pending, deleted \in BOOLEAN : DeleteFileSettle(url, deleted)
    \/ \E id \in D.profileIds : CacheSet(id)
    \/ \E id \in D.profileIds : CacheDel(id)

\* accounts and credentials: emails that differ in case only, two passwords,
\* one name; the profile of user 1 is exercised
Accounts ==
    [emails |-> {<<"a">>, <<"A">>, <<"b">>},
     names |-> {<<"j", "o">>},
     usernames |-> {<<"J", "O">>},
     passwords |-> {<<"p">>, <<"q">>},
     newPasswords |-> {<<"p">>, <<"q">>},
     createPasswords |-> {<<"p">>, Undefined},
     salts |-> {"s1"},
     statuses |-> {"ONLINE"},
     searches |-> {<<"O">>, <<"b">>, Undefined, Null},
     firsts |-> {1},
     afters |-> {Undefined, <<"j", "o">>},
     maxCreates |-> MaxCreates,
     ids |-> 1..MaxCreates,
     credentialIds |-> {1, 2},
     profileIds |-> {1}]

\* names: a slug that is a prefix of another, a username that ends in a
\* digit, three emails, so that three users are stored at once; the
\* credentials and the profile of user 1 are exercised
Named ==
    [emails |-> {<<"a">>, <<"b">>, <<"c">>},
     names |-> {<<"j", "o">>, <<"J", "o", "n">>},
     usernames |-> {<<"J", "O", "1">>},
     passwords |-> {<<"p">>},
     newPasswords |-> {<<"q">>},
     createPasswords |-> {<<"p">>},
     salts |-> {"s1"},
     statuses |-> {"ONLINE"},
     searches |-> {<<"O">>},
     maxCreates |-> MaxNamed,
     ids |-> 1..MaxNamed,
     credentialIds |-> {1},
     profileIds |-> {1}]


\* accounts without a password: the sentinel itself is among the passwords
\* the callers supply
OAuth ==
    [emails |-> {<<"a">>, <<"b">>},
     names |-> {<<"j", "o">>},
     usernames |-> {<<"J", "O">>},
     passwords |-> {<<"p">>, UNSET},
     newPasswords |-> {<<"q">>},
     createPasswords |-> {<<"p">>, Undefined},
     salts |-> {"s1"},
     statuses |-> {"ONLINE"},
     searches |-> {Undefined},
     maxCreates |-> MaxCreates,
     ids |-> 1..MaxCreates,
     credentialIds |-> 1..MaxCreates,
     profileIds |-> {1}]


\* profiles: two statuses, the pictures and the sessions of every user
Profiles ==
    [emails |-> {<<"a">>, <<"b">>},
     names |-> {<<"j", "o">>},
     usernames |-> {<<"J", "O">>},
     passwords |-> {<<"p">>},
     newPasswords |-> {<<"q">>},
     createPasswords |-> {<<"p">>},
     salts |-> {"s1"},
     statuses |-> {"ONLINE", "BUSY"},
     searches |-> {Undefined},
     maxCreates |-> MaxCreates,
     ids |-> 1..MaxCreates,
     credentialIds |-> {1},
     profileIds |-> 1..MaxCreates]


\* registrations that run at the same time, one step of one of them at a
\* time
Racing(D) ==
    \/ \E r \in Requests, email \in D.emails, name \in D.names,
          password \in D.createPasswords :
            /\ nextId <= D.maxCreates
            /\ CreateCheckEmail(r, email, name, "local", password)
    \/ \E r \in Requests : CreateGenerateUsername(r)
    \/ \E r \in Requests, salt \in D.salts : CreateSave(r, salt)

\* registrations with emails that differ in case only, under two names
Races ==
    [emails |-> {<<"a">>, <<"A">>},
     names |-> {<<"j", "o">>, <<"J", "o", "n">>},
     createPasswords |-> {<<"p">>},
     salts |-> {"s1"},
     maxCreates |-> MaxCreates]

NextRacing == Racing(Races) \/ Respond

SpecRacing == Init /\ [][NextRacing]_vars


\* changes of picture that run at the same time, one step of one of them at
\* a time
Uploading(D) ==
    \/ \E r \in Requests, id \in D.profileIds : UpdatePictureFind(r, id)
    \/ \E r \in Requests, uploaded \in BOOLEAN :
            UpdatePictureUpload(r, uploaded)
    \/ \E r \in Requests, saved \in BOOLEAN : UpdatePictureSave(r, saved)
    \/ \E url \in pending, deleted \in BOOLEAN : DeleteFileSettle(url, deleted)

Next == Service(Accounts) \/ Respond

Spec == Init /\ [][Next]_vars

\* every call that writes an email or a username, and the calls between them
NextNames ==
    \/ Creates(Named)
    \/ Credentials(Named)
    \/ Gated(Named)
    \/ Renames(Named)
    \/ Presence(Named)
    \/ Respond

SpecNames == Init /\ [][NextNames]_vars

\* registrations only
NextCreates == Creates(Named) \/ Respond

SpecCreates == Init /\ [][NextCreates]_vars
----------------------------------------------------------------------------
(* The claims.                                                             *)

\* the ids the storage has handed out
Created == 1..(nextId - 1)

\* the version of user id is past v, or the user is gone
Past(us, id, v) == id \notin DOMAIN us \/ us[id].version > v

\* a version once past stays past, and a deleted user stays deleted
PastStaysPast ==
    \A id \in Created, v \in Versions :
        Past(users, id, v) => Past(users', id, v)

\* C1: create fails with the conflict 'Email already in use' whenever a
\* stored user has the same email after lower-casing, whatever the name and
\* the password; the failed call adds no user and changes no stored user.
C1_CreateConflict ==
    [][(/\ last'.op = "create"
        /\ \E i \in DOMAIN users : users[i].email = toLowerCase(last'.email))
       => /\ last'.err = EmailInUse
          /\ users' = users
          /\ nextId' = nextId]_vars

\* create('A', ...) without a password is refused while 'a' is stored
C1_Witness ==
    /\ last.op = "create"
    /\ last.err = EmailInUse
    /\ last.email = <<"A">>
    /\ last.password = Undefined
    /\ \E i \in DOMAIN users : users[i].email = <<"a">>

\* C2: over registrations only, users whose names have the same slug have
\* distinct usernames: the first registration with a slug gets the slug, the
\* Nth (N > 1) the slug followed by the decimal number N - 1.
C2_NthSuffix ==
    \A i \in DOMAIN users :
        LET slug == generatePointSlug(users[i].name)
            n == Cardinality({j \in DOMAIN users :
                    j <= i /\ generatePointSlug(users[j].name) = slug})
        IN  /\ users[i].username =
                   IF n = 1 THEN slug ELSE slug \o NumberToString(n - 1)
            /\ \A j \in DOMAIN users :
                   (j # i /\ generatePointSlug(users[j].name) = slug)
                       => users[j].username # users[i].username

C4_UpdatePassword ==
    [][(last'.op = "updatePassword" /\ last'.id \in DOMAIN users) =>
        LET id == last'.id
            matches == compare(last'.password, users[id].password)
            same == compare(last'.newPassword, users[id].password)
        IN  /\ (last'.err = OK) <=> (matches /\ ~same)
            /\ ~matches => last'.err = WrongPassword
            /\ (matches /\ same) => last'.err = SamePassword
            /\ last'.err # OK => users' = users
            /\ last'.err = OK =>
                   /\ compare(last'.newPassword, users'[id].password)
                   /\ users'[id].version = users[id].version + 1]_vars

\* a second successful updatePassword, back to the first password
C4_Witness ==
    /\ last.op = "updatePassword"
    /\ last.err = OK
    /\ last.id \in DOMAIN users
    /\ users[last.id].version = 2
    /\ compare(last.newPassword, users[last.id].password)
    /\ compare(last.password, users[last.id].lastPassword)

\* C5: findOneByCredentials(id, v) succeeds iff the user is stored and v is
\* its stored version, and fails with 'Invalid credentials' otherwise; once
\* the version of a user is past v (or the user is gone), it stays so, and
\* findOneByCredentials(id, v) does not succeed again.
C5_Credentials ==
    [][/\ last'.op = "findOneByCredentials" =>
            /\ (last'.err = OK) <=>
                   /\ last'.id \in DOMAIN users
                   /\ users[last'.id].version = last'.version
            /\ last'.err # OK => last'.err = InvalidCredentials
            /\ last'.err = OK => last'.ret = last'.id
            /\ (last'.id \in Created /\ Past(users, last'.id, last'.version))
                   => last'.err = InvalidCredentials
       /\ PastStaysPast]_vars

\* a version the user has left behind is refused
C5_Witness ==
    /\ last.op = "findOneByCredentials"
    /\ last.err = InvalidCredentials
    /\ last.id \in DOMAIN users
    /\ users[last.id].version > last.version

\* C6: the version of a user is 0 right after create, never decreases, and
\* changes only by exactly 1, in a successful updatePassword, resetPassword
\* or confirmEmail on that user; every other call and every failed call
\* leaves it unchanged.
C6_Version ==
    [][\A id \in DOMAIN users' :
        IF id \notin DOMAIN users
        THEN /\ last'.op = "create"
             /\ last'.err = OK
             /\ users'[id].version = 0
        ELSE \/ users'[id].version = users[id].version
             \/ /\ users'[id].version = users[id].version + 1
                /\ last'.op \in
                       {"updatePassword", "resetPassword", "confirmEmail"}
                /\ last'.err = OK
                /\ last'.id = id]_vars

\* a picture is stored for a user whose version has moved twice
C6_Witness ==
    /\ last.op = "updatePicture"
    /\ last.err = OK
    /\ last.id \in DOMAIN users
    /\ users[last.id].version = 2
    /\ users[last.id].picture # 0

\* C7 as stated: after a confirmEmail has succeeded, a second confirmEmail
\* on the account fails with 'Email already confirmed' and leaves the users
\* unchanged.
C7_AlreadyConfirmed ==
    [][(/\ last'.op = "confirmEmail"
        /\ last'.id \in DOMAIN users
        /\ users[last'.id].confirmed)
       => /\ last'.err = AlreadyConfirmed
          /\ users' = users]_vars

\* C7, amended: a successful confirmEmail sets confirmed and adds 1 to the
\* version; a confirmEmail on a confirmed account fails and leaves the users
\* unchanged, with 'Email already confirmed' when it carries the current
\* version and with 'Invalid credentials' when it carries any other one, as
\* a repetition of the successful call does.
C7_SecondConfirm ==
    [][(last'.op = "confirmEmail" /\ last'.id \in DOMAIN users) =>
        LET id == last'.id IN
        /\ last'.err = OK =>
               /\ ~users[id].confirmed
               /\ users'[id].confirmed
               /\ users'[id].version = users[id].version + 1
        /\ users[id].confirmed =>
               /\ users' = users
               /\ last'.err = IF last'.version = users[id].version
                              THEN AlreadyConfirmed
                              ELSE InvalidCredentials]_vars

\* a confirmEmail with the current version on a confirmed account
C7_Witness ==
    /\ last.op = "confirmEmail"
    /\ last.err = AlreadyConfirmed
    /\ last.id \in DOMAIN users
    /\ users[last.id].confirmed
    /\ users[last.id].version = last.version

\* C8: resetPassword with a version that is not the current one fails with
\* 'Invalid credentials' and leaves the users unchanged; with the current
\* version it replaces the password and adds 1 to the version, so that the
\* same call fails in every later state.
C8_ResetPassword ==
    [][/\ (last'.op = "resetPassword" /\ last'.id \in DOMAIN users) =>
            LET id == last'.id IN
            IF last'.version # users[id].version
            THEN /\ last'.err = InvalidCredentials
                 /\ users' = users
            ELSE /\ last'.err = OK
                 /\ compare(last'.password, users'[id].password)
                 /\ users'[id].version = users[id].version + 1
                 /\ Past(users', id, last'.version)
                 /\ credentialsError(users', id, last'.version)
                        = InvalidCredentials
       /\ PastStaysPast]_vars

\* the call that has just succeeded is repeated and refused
C8_Witness ==
    /\ last.op = "resetPassword"
    /\ last.err = InvalidCredentials
    /\ last.id \in DOMAIN users
    /\ users[last.id].version = last.version + 1
    /\ compare(last.password, users[last.id].password)

\* C9: updateEmail on a stored user fails with 'Wrong password' when the
\* password does not match, whatever the email; else with 'Email should be
\* different' when the lower-cased email is the user's own; else with
\* 'Email already in use' when another user holds it; else the stored email
\* becomes the lower-cased email and nothing else changes.
C9_UpdateEmail ==
    [][(last'.op = "updateEmail" /\ last'.id \in DOMAIN users) =>
        LET id == last'.id
            email == toLowerCase(last'.email)
        IN  IF ~compare(last'.password, users[id].password)
            THEN last'.err = WrongPassword /\ users' = users
            ELSE IF email = users[id].email
            THEN last'.err = SameEmail /\ users' = users
            ELSE IF \E j \in DOMAIN users \ {id} : users[j].email = email
            THEN last'.err = EmailInUse /\ users' = users
            ELSE /\ last'.err = OK
                 /\ users' = [users EXCEPT ![id].email = email]]_vars

\* updateEmail('A') has stored 'a'
C9_Witness ==
    /\ last.op = "updateEmail"
    /\ last.err = OK
    /\ last.email = <<"A">>
    /\ last.id \in DOMAIN users
    /\ users[last.id].email = <<"a">>

\* C10: delete with a password that does not match fails with 'Wrong
\* password' and leaves the users unchanged; with the password it removes
\* that user and no other; findOneById fails with 'User not found' exactly
\* for the ids that are not stored, and a deleted id is never stored again.
C10_Delete ==
    [][/\ (last'.op = "delete" /\ last'.id \in DOMAIN users) =>
            IF ~compare(last'.password, users[last'.id].password)
            THEN last'.err = WrongPassword /\ users' = users
            ELSE /\ last'.err = OK
                 /\ DOMAIN users' = DOMAIN users \ {last'.id}
                 /\ \A j \in DOMAIN users' : users'[j] = users[j]
       /\ last'.op = "findOneById" =>
            /\ (last'.err = NotFound) <=> (last'.id \notin DOMAIN users)
            /\ (last'.err = OK) <=> (last'.id \in DOMAIN users)
       /\ \A id \in Created :
            id \notin DOMAIN users => id \notin DOMAIN users']_vars

\* a deleted user is looked up while another user is stored
C10_Witness ==
    /\ last.op = "findOneById"
    /\ last.err = NotFound
    /\ last.id \in Created
    /\ DOMAIN users # {}

\* C11: a lookup of a user that is not stored fails with 'User not found' in
\* findOneById and findOneByUsername (forAuth false), with 'Invalid
\* credentials' in findOneByUsername (forAuth true), findOneByEmail and
\* findOneByCredentials, which is also the error of a version that does not
\* match; uncheckedUserByEmail returns null without an error.
C11_Lookups ==
    [][LET Missing(Holds(_)) == ~\E i \in DOMAIN users : Holds(users[i])
           email == toLowerCase(last'.email)
           username == toLowerCase(last'.username)
       IN
       /\ (last'.op = "findOneById" /\ last'.id \notin DOMAIN users)
              => last'.err = NotFound
       /\ (last'.op = "findOneByUsername"
              /\ Missing(LAMBDA u : u.username = username))
              => last'.err = IF last'.forAuth THEN InvalidCredentials
                             ELSE NotFound
       /\ (last'.op = "findOneByEmail" /\ Missing(LAMBDA u : u.email = email))
              => last'.err = InvalidCredentials
       /\ (last'.op = "findOneByCredentials"
              /\ \/ last'.id \notin DOMAIN users
                 \/ users[last'.id].version # last'.version)
              => last'.err = InvalidCredentials
       /\ (last'.op = "uncheckedUserByEmail"
              /\ Missing(LAMBDA u : u.email = email))
              => last'.err = OK /\ last'.ret = 0]_vars

\* findOneByEmail of an email nobody holds, while another user is stored
C11_Witness ==
    /\ last.op = "findOneByEmail"
    /\ last.err = InvalidCredentials
    /\ DOMAIN users # {}
    /\ \A i \in DOMAIN users : users[i].email # toLowerCase(last.email)

\* registrations with and without a password, and the calls a password gates
NextOAuth ==
    \/ Creates(OAuth)
    \/ Credentials(OAuth)
    \/ Gated(OAuth)
    \/ Respond

SpecOAuth == Init /\ [][NextOAuth]_vars

\* the passwords a caller may try
Tried == {<<"p">>, <<"q">>, UNSET, Undefined}

\* C12: an account created without a password stores the sentinel 'UNSET',
\* and updatePassword, updateEmail and delete fail on it with 'Wrong
\* password' for every password, the text 'UNSET' included, until a
\* resetPassword has set a password; an account created with a password
\* stores a digest that this password matches and no other one does.
C12_Unset ==
    [][/\ (last'.op = "create" /\ last'.err = OK) =>
            LET stored == users'[last'.ret].password IN
            IF isUndefined(last'.password)
            THEN stored = UNSET
            ELSE /\ stored # last'.password
                 /\ \A pw \in Tried :
                        compare(pw, stored) <=> pw = last'.password
       /\ (/\ last'.op \in {"updatePassword", "updateEmail", "delete"}
           /\ last'.id \in DOMAIN users
           /\ users[last'.id].password = UNSET)
          => /\ last'.err = WrongPassword
             /\ users' = users
       /\ \A id \in DOMAIN users :
            (users[id].password = UNSET /\ id \in DOMAIN users')
                => \/ users'[id].password = UNSET
                   \/ /\ last'.op = "resetPassword"
                      /\ last'.err = OK
                      /\ last'.id = id
                      /\ compare(last'.password, users'[id].password)]_vars

\* delete with the text 'UNSET' as the password is refused on an account
\* that stores the sentinel
C12_Witness ==
    /\ last.op = "delete"
    /\ last.password = UNSET
    /\ last.err = WrongPassword
    /\ last.id \in DOMAIN users
    /\ users[last.id].password = UNSET

\* the profile of a user, next to the cache and the uploader
NextProfiles ==
    \/ Creates(Profiles)
    \/ Pictures(Profiles)
    \/ Presence(Profiles)
    \/ Collaborators(Profiles)
    \/ Respond

SpecProfiles == Init /\ [][NextProfiles]_vars

\* C13: updateOnlineStatus on a stored user succeeds and sets defaultStatus
\* to the requested status; it sets onlineStatus to it only when the cache
\* holds the entry 'sessions:<id>', and leaves onlineStatus alone otherwise;
\* nothing else changes.
C13_OnlineStatus ==
    [][(/\ Idle
        /\ last'.op = "updateOnlineStatus"
        /\ last'.id \in DOMAIN users) =>
        LET id == last'.id IN
        /\ last'.err = OK
        /\ users' = [users EXCEPT
               ![id].defaultStatus = last'.status,
               ![id].onlineStatus =
                   IF id \in sessions THEN last'.status
                   ELSE users[id].onlineStatus]]_vars

\* the user went online with a session; the session is gone and the change
\* to 'BUSY' has reached defaultStatus only
C13_Witness ==
    /\ last.op = "updateOnlineStatus"
    /\ last.err = OK
    /\ last.status = "BUSY"
    /\ last.id \in DOMAIN users
    /\ last.id \notin sessions
    /\ users[last.id].defaultStatus = "BUSY"
    /\ users[last.id].onlineStatus = "ONLINE"

\* C15: updatePicture starts the deletion of the old picture and does not
\* wait for it: when it returns, the deletion is still in flight and the old
\* file is still stored; when the deletion settles, deleted or not, the
\* outcome of the call and the stored users, the new picture included, stay
\* as they are.
C15_FireAndForget ==
    [][/\ (Idle /\ last'.op = "updatePicture" /\ last'.err = OK) =>
            LET old == users[last'.id].picture IN
            /\ users'[last'.id].picture \notin {0, old}
            /\ users'[last'.id].picture \in files'
            /\ old # 0 => (old \in pending' /\ old \in files')
       /\ (pending' # pending /\ pending' \subseteq pending) =>
            /\ users' = users
            /\ last' = last]_vars

\* the call has returned, the deletion of the old picture has failed since:
\* the old file is still stored, and the user has the new picture
C15_Witness ==
    /\ last.op = "updatePicture"
    /\ last.err = OK
    /\ pending = {}
    /\ last.id \in DOMAIN users
    /\ users[last.id].picture \in files
    /\ \E url \in files : \A i \in DOMAIN users : users[i].picture # url

\* C16: updateUsername on a stored user lower-cases the username and fails
\* with 'Username already in use' when a stored user, the caller included,
\* has it, leaving the users unchanged; otherwise the username of the caller
\* becomes the lower-cased value and nothing else changes.
C16_UpdateUsername ==
    [][(Idle /\ last'.op = "updateUsername" /\ last'.id \in DOMAIN users) =>
        LET id == last'.id
            username == toLowerCase(last'.username)
        IN  IF \E i \in DOMAIN users : users[i].username = username
            THEN last'.err = UsernameInUse /\ users' = users
            ELSE /\ last'.err = OK
                 /\ users' = [users EXCEPT ![id].username = username]]_vars

\* the caller asks for the username it has, in upper case
C16_Witness ==
    /\ last.op = "updateUsername"
    /\ last.err = UsernameInUse
    /\ last.id \in DOMAIN users
    /\ last.username # toLowerCase(last.username)
    /\ users[last.id].username = toLowerCase(last.username)

\* C17: query selects confirmed users only, whatever the search and the
\* cursor; with a search that is neither undefined nor null, only users
\* whose name contains it, whatever the case of the letters; the selection
\* goes to the pagination with the cursor on username, of type string, in
\* ascending order.
C17_Query ==
    [][(Idle /\ last'.op = "query") =>
        LET search == toLowerCase(last'.search)
            given == last'.search \notin {Undefined, Null}
            Within(name) ==
                \E k \in 1..Len(name) :
                    IsPrefix(search, SubSeq(toLowerCase(name), k, Len(name)))
        IN  /\ \A i \in DOMAIN users :
                   i \in last'.sel <=>
                       /\ users[i].confirmed
                       /\ given => Within(users[i].name)
            /\ last'.sel \subseteq DOMAIN users
            /\ last'.cursor = "username"
            /\ last'.cursorType = "STRING"
            /\ last'.order = "ASC"
            /\ users' = users]_vars

\* a search in upper case, after a cursor, selects the confirmed user and
\* not the unconfirmed one of the same name
C17_Witness ==
    /\ last.op = "query"
    /\ last.search = <<"O">>
    /\ last.after = <<"j", "o">>
    /\ last.sel # {}
    /\ \E i \in DOMAIN users \ last.sel :
           /\ ~users[i].confirmed
           /\ \E j \in last.sel : users[j].name = users[i].name

\* the errors of the service: conflict, not-found, unauthorized, bad-request
Conflicts == {EmailInUse, UsernameInUse, Duplicated}
Failures ==
    Conflicts \cup {NotFound, InvalidCredentials, WrongPassword,
                    SamePassword, SameEmail, AlreadyConfirmed}

\* C18: a call of create, confirmEmail, updatePassword, resetPassword,
\* updateEmail, updateUsername or delete that fails, fails with a conflict,
\* not-found, unauthorized or bad-request error and leaves the stored users,
\* every field of them, as they were before the call.
C18_FailedCallsChangeNothing ==
    [][(/\ Idle
        /\ last'.op \in {"create", "confirmEmail", "updatePassword",
                         "resetPassword", "updateEmail", "updateUsername",
                         "delete"}
        /\ last'.err # OK)
       => /\ last'.err \in Failures
          /\ users' = users
          /\ nextId' = nextId]_vars

\* updateEmail is refused because another user holds the email
C18_Witness ==
    /\ last.op = "updateEmail"
    /\ last.err = EmailInUse
    /\ last.id \in DOMAIN users
    /\ users[last.id].email # toLowerCase(last.email)
    /\ \E i \in DOMAIN users \ {last.id} :
           users[i].email = toLowerCase(last.email)

\* C19: updateName on a stored user stores the formatted name and the
\* username generateUsername gives for it, as create does; the count
\* includes the caller: when the slug of the new name is a prefix of the
\* caller's username, the count is at least 1 and the username becomes the
\* slug followed by the count.
C19_Regenerated ==
    [][(Idle /\ last'.op = "updateName" /\ last'.id \in DOMAIN users) =>
        LET id == last'.id
            name == formatTitle(last'.name)
            slug == generatePointSlug(name)
            count == Cardinality({i \in DOMAIN users :
                                    IsPrefix(slug, users[i].username)})
        IN  /\ users'[id].name = name
            /\ users'[id].username = generateUsername(users, name)
            /\ IsPrefix(slug, users[id].username) =>
                   /\ count >= 1
                   /\ users'[id].username = slug \o NumberToString(count)]_vars

\* C20: a stored user that is confirmed stays confirmed, whatever the call;
\* a successful updateEmail leaves the confirmed flag and the version as
\* they were, so that findOneByCredentials still accepts the version issued
\* before the change.
C20_ConfirmedStays ==
    [][/\ \A id \in DOMAIN users \cap DOMAIN users' :
            users[id].confirmed => users'[id].confirmed
       /\ (/\ Idle
           /\ last'.op = "updateEmail"
           /\ last'.err = OK) =>
            LET id == last'.id IN
            /\ users'[id].confirmed = users[id].confirmed
            /\ users'[id].version = users[id].version
            /\ credentialsError(users', id, users[id].version) = OK]_vars

\* a confirmed user has changed its email
C20_Witness ==
    /\ last.op = "updateEmail"
    /\ last.err = OK
    /\ last.id \in DOMAIN users
    /\ users[last.id].confirmed
    /\ users[last.id].version >= 1
    /\ users[last.id].email = toLowerCase(last.email)

\* C14: a create raises 'Email already in use' only in its check, against
\* the users stored at that moment, so that two creates with the same
\* lower-cased email can both be past the check; the one that saves second
\* is then not refused with 'Email already in use' but by the unique
\* constraint of the storage ('Duplicated value in database'), which alone
\* keeps the users from holding an email twice.
C14_CheckThenAct ==
    [][/\ \A r \in Requests :
            LET email == toLowerCase(creating[r].email)
                held == \E i \in DOMAIN users : users[i].email = email
            IN
            /\ (creating[r].pc = "none" /\ creating'[r].pc = "username")
                   => ~\E i \in DOMAIN users :
                          users[i].email = toLowerCase(creating'[r].email)
            /\ (creating[r].pc = "save" /\ creating'[r].pc = "none")
                   => /\ last'.op = "create"
                      /\ last'.err \in {OK, Duplicated}
                      /\ held => (last'.err = Duplicated /\ users' = users)
                      /\ last'.err = OK =>
                             users'[last'.ret].email = email
       /\ \A i, j \in DOMAIN users' :
            i # j => users'[i].email # users'[j].email]_vars

\* two creates with the emails 'a' and 'A' and different names were both
\* past the check; the second save has been refused by the storage
C14_Witness ==
    /\ last.op = "create"
    /\ last.err = Duplicated
    /\ \E i \in DOMAIN users :
           /\ users[i].email = toLowerCase(last.email)
           /\ users[i].name # formatTitle(last.name)
           /\ ~IsPrefix(generatePointSlug(last.name), users[i].username)

\* the pictures of the users, step by step, next to the uploader
NextPictures ==
    \/ Creates(Profiles)
    \/ Uploading(Profiles)
    \/ Respond

SpecPictures == Init /\ [][NextPictures]_vars

\* C21: updatePicture uploads, then asks for the deletion of the old picture,
\* then saves.  An upload that fails ends the call with nothing deleted,
\* nothing asked for and the users as they were; a deletion is asked for only
\* in the step in which an upload succeeds, only for the picture the user had
\* and only when it had one, and the users are not yet saved in that step;
\* the save asks for nothing and, when it fails, leaves the users as they
\* were; a file goes away only when its deletion had been asked for.
C21_UploadDeleteSave ==
    [][/\ \A r \in Requests :
            LET u == updating[r] IN
            /\ (u.pc = "upload" /\ updating'[r].pc = "none") =>
                    /\ last'.err = UploadFailed
                    /\ users' = users
                    /\ files' = files
                    /\ pending' = pending
            /\ (u.pc = "upload" /\ updating'[r].pc = "save") =>
                    /\ users' = users
                    /\ updating'[r].picture \in files' \ files
                    /\ pending' = IF u.oldPicture # 0
                                  THEN pending \cup {u.oldPicture}
                                  ELSE pending
            /\ (u.pc = "save" /\ updating'[r].pc = "none") =>
                    /\ pending' = pending
                    /\ files' = files
                    /\ last'.err # OK => users' = users
                    /\ last'.err = OK =>
                           users' = [users EXCEPT ![u.id].picture = u.picture]
       /\ pending' \ pending # {} =>
            \E r \in Requests :
                /\ updating[r].pc = "upload"
                /\ updating'[r].pc = "save"
                /\ updating[r].oldPicture # 0
                /\ pending' \ pending = {updating[r].oldPicture}
       /\ files \ files' \subseteq pending]_vars

\* the save of an updatePicture has failed after the old picture was
\* deleted: the stored user points at a file the uploader no longer has
C21_Witness ==
    /\ last.op = "updatePicture"
    /\ last.err = FlushFailed
    /\ last.id \in DOMAIN users
    /\ users[last.id].picture # 0
    /\ users[last.id].picture \notin files
    /\ users[last.id].picture \notin pending
    /\ \A r \in Requests : updating[r].pc = "none"
====
